---- MODULE Spec2Model ----
(***************************************************************************)
(* A model of the two static-site build scripts of mathspp/tools:          *)
(*   build_index.py    README.md + tools.json      -> index.html           *)
(*   build_colophon.py gathered_links.json         -> colophon.html        *)
(*                                                                         *)
(* Strings are sequences of one-character strings; HTML documents of the   *)
(* build passes are sequences of markup tokens (one string per element,    *)
(* the splice markers being tokens of their own).  A timestamp string is a *)
(* record holding what datetime.fromisoformat reads from it: the local     *)
(* wall-clock time (in hours) and the UTC offset, or no offset at all.     *)
(***************************************************************************)
EXTENDS Integers, Sequences, FiniteSets, TLC

VARIABLES
    dt,             \* argument of _format_display_date
    display,        \* its result
    select_call,    \* arguments of a direct call of _select_recent
    selected,       \* its result
    splice_call,    \* arguments of a direct call of _replace_between_markers
    spliced,        \* its result
    respliced,      \* the result of splicing the result again
    files,          \* the working directory: inputs and outputs of both passes
    index_run,      \* outcome of build_index
    colophon_run    \* outcome of build_colophon

vars == <<dt, display, select_call, selected, splice_call, spliced, respliced,
          files, index_run, colophon_run>>

(***************************************************************************)
(* Bounds of the model.                                                    *)
(***************************************************************************)
MaxDay == 31            \* day values handed to _ordinal: 1..MaxDay
MaxTools == 2           \* length of the exhaustively enumerated tool lists
MaxBody == 5            \* length of the string handed to the splicer
MaxMarker == 2          \* length of a marker
MaxReplacement == 2     \* length of a replacement
MaxReadme == 5          \* number of tokens of a converted README
MaxPages == 2           \* pages of the commit-history document
MaxCommits == 2         \* commits of a page

(***************************************************************************)
(* Program constants.                                                      *)
(***************************************************************************)
RecentLimit == 5        \* limit=5 of both selections of build_index

(***************************************************************************)
(* Generic helpers on sequences.                                           *)
(***************************************************************************)
Range(s) == {s[i] : i \in 1..Len(s)}

SeqsUpTo(S, n) == UNION {[1..k -> S] : k \in 0..n}

SeqsFromTo(S, m, n) == UNION {[1..k -> S] : k \in m..n}

\* Python's s[a:b] for 0 <= a, with b clipped to len(s).
Slice(s, a, b) ==
    LET hi == IF b > Len(s) THEN Len(s) ELSE b
    IN  IF a >= hi THEN <<>> ELSE [i \in 1..(hi - a) |-> s[a + i]]

(***************************************************************************)
(* _ordinal and _format_display_date (build_index.py 19-25, 52-53).        *)
(* The f-string "{value}{suffix}" is the pair <<value, suffix>>.           *)
(***************************************************************************)
SuffixByLastDigit(d) ==
    CASE d = 1 -> "st"
      [] d = 2 -> "nd"
      [] d = 3 -> "rd"
      [] OTHER -> "th"

\* The slip of forgetting the teens: 11 -> "11st".
_ordinal_no_teens(value) == <<value, SuffixByLastDigit(value % 10)>>

_ordinal(value) ==
    IF 10 <= value % 100 /\ value % 100 <= 20
    THEN <<value, "th">>
    ELSE <<value, SuffixByLastDigit(value % 10)>>

Months == 1..12
Years == {2024, 2025}
NoDisplay == [ordinal |-> <<0, "">>, month |-> 0, year |-> 0]

\* "{_ordinal(dt.day)} {dt.strftime('%B %Y')}": ordinal, month name, year.
_format_display_date(d) ==
    [ordinal |-> _ordinal(d.day), month |-> d.month, year |-> d.year]

(***************************************************************************)
(* Timestamps (build_index.py 28-35).                                      *)
(*   kind "absent"     None, a missing key or "": falsy                    *)
(*   kind "malformed"  a non-empty string fromisoformat rejects            *)
(*   kind "iso"        local time `local`, and with aware = TRUE an offset *)
(*                     `off` from UTC ("Z" is read as +00:00)              *)
(***************************************************************************)
Absent == [kind |-> "absent", local |-> 0, aware |-> FALSE, off |-> 0]
Malformed == [kind |-> "malformed", local |-> 0, aware |-> FALSE, off |-> 0]
IsoNaive(l) == [kind |-> "iso", local |-> l, aware |-> FALSE, off |-> 0]
IsoAware(l, o) == [kind |-> "iso", local |-> l, aware |-> TRUE, off |-> o]

\* bool(value) of a timestamp field
Truthy(value) == value.kind # "absent"

\* datetime | None: `ok` is FALSE for None.
NoDatetime == [ok |-> FALSE, local |-> 0, aware |-> FALSE, off |-> 0]

_parse_iso_datetime(value) ==
    IF ~Truthy(value) THEN NoDatetime
    ELSE IF value.kind = "iso"
         THEN [ok |-> TRUE, local |-> value.local, aware |-> value.aware,
               off |-> value.off]
         ELSE NoDatetime    \* ValueError caught

\* datetime ordering: naive values compare by wall-clock time, aware values
\* by UTC instant, and ordering a naive against an aware value raises
\* TypeError.
Instant(d) == IF d.aware THEN d.local - d.off ELSE d.local
Comparable(d1, d2) == d1.aware = d2.aware
DtGreater(d1, d2) == Instant(d1) > Instant(d2)
DtGreaterOrEqual(d1, d2) == Instant(d1) >= Instant(d2)

(***************************************************************************)
(* _has_distinct_update (build_index.py 38-49).                            *)
(* status "TypeError": the comparison updated > created raised.            *)
(***************************************************************************)
\* The slip of >= for >.
_has_distinct_update_or_equal(tool) ==
    LET updated == _parse_iso_datetime(tool.updated)
        created == _parse_iso_datetime(tool.created)
    IN  IF ~updated.ok THEN [status |-> "ok", value |-> FALSE]
        ELSE IF ~created.ok THEN [status |-> "ok", value |-> TRUE]
        ELSE IF ~Comparable(updated, created)
             THEN [status |-> "TypeError", value |-> FALSE]
             ELSE [status |-> "ok", value |-> DtGreaterOrEqual(updated, created)]

_has_distinct_update(tool) ==
    LET updated == _parse_iso_datetime(tool.updated)
        created == _parse_iso_datetime(tool.created)
    IN  IF ~updated.ok THEN [status |-> "ok", value |-> FALSE]
        ELSE IF ~created.ok THEN [status |-> "ok", value |-> TRUE]
        ELSE IF ~Comparable(updated, created)
             THEN [status |-> "TypeError", value |-> FALSE]
             ELSE [status |-> "ok", value |-> DtGreater(updated, created)]

(***************************************************************************)
(* _select_recent (build_index.py 63-88).                                  *)
(***************************************************************************)
Field(tool, key) == IF key = "created" THEN tool.created ELSE tool.updated

\* lines 71-76: the tools with a truthy, parseable timestamp, each with its
\* parsed date
DatedTools(tools, key) ==
    LET Dated(tool) == Truthy(Field(tool, key))
                       /\ _parse_iso_datetime(Field(tool, key)).ok
        Pair(tool) == [tool |-> tool,
                       parsed_date |-> _parse_iso_datetime(Field(tool, key))]
        kept == SelectSeq(tools, Dated)
    IN  [i \in 1..Len(kept) |-> Pair(kept[i])]

\* list.sort(key=..., reverse=True) is stable: an item goes behind every item
\* whose key is greater than or equal to its own.
RECURSIVE InsertDescending(_, _)
InsertDescending(sorted, item) ==
    IF sorted = <<>> THEN <<item>>
    ELSE IF DtGreaterOrEqual(Head(sorted).parsed_date, item.parsed_date)
         THEN <<Head(sorted)>> \o InsertDescending(Tail(sorted), item)
         ELSE <<item>> \o sorted

RECURSIVE SortDescending(_, _)
SortDescending(items, sorted) ==
    IF items = <<>> THEN sorted
    ELSE SortDescending(Tail(items), InsertDescending(sorted, Head(items)))

\* The sort compares its keys until they are ordered, so it raises TypeError
\* exactly when naive and aware dates are both present.
SortRaises(dated) ==
    \E i, j \in 1..Len(dated) :
        ~Comparable(dated[i].parsed_date, dated[j].parsed_date)

Entry(item) ==
    [slug |-> item.tool.slug, created |-> item.tool.created,
     updated |-> item.tool.updated, parsed_date |-> item.parsed_date]

\* lines 79-88: the loop appends, and only then tests the limit
RECURSIVE SelectLoop(_, _, _, _)
SelectLoop(dated, excluded, limit, acc) ==
    IF dated = <<>> THEN acc
    ELSE IF Head(dated).tool.slug \in excluded
         THEN SelectLoop(Tail(dated), excluded, limit, acc)
         ELSE LET next == Append(acc, Entry(Head(dated)))
              IN  IF Len(next) >= limit THEN next
                  ELSE SelectLoop(Tail(dated), excluded, limit, next)

\* The slip of dropping the exclusion test of line 81.
_select_recent_no_exclusion(tools, key, limit, exclude_slugs) ==
    LET dated == DatedTools(tools, key)
    IN  IF SortRaises(dated) THEN [status |-> "TypeError", value |-> <<>>]
        ELSE [status |-> "ok",
              value |-> SelectLoop(SortDescending(dated, <<>>), {}, limit, <<>>)]

_select_recent(tools, key, limit, exclude_slugs) ==
    LET dated == DatedTools(tools, key)
    IN  IF SortRaises(dated) THEN [status |-> "TypeError", value |-> <<>>]
        ELSE [status |-> "ok",
              value |-> SelectLoop(SortDescending(dated, <<>>), exclude_slugs,
                                   limit, <<>>)]

(***************************************************************************)
(* _replace_between_markers (build_index.py 91-107).                       *)
(* Indices are Python's: 0-based, -1 for "not found".                      *)
(***************************************************************************)
NL == "\n"

OccursAt(text, sub, i) ==
    /\ i + Len(sub) <= Len(text)
    /\ \A k \in 1..Len(sub) : text[i + k] = sub[k]

\* text.find(sub, start)
Find(text, sub, start) ==
    LET hits == {i \in start..(Len(text) - Len(sub)) : OccursAt(text, sub, i)}
    IN  IF hits = {} THEN -1 ELSE CHOOSE i \in hits : \A j \in hits : i <= j

\* sub in text
Contains(text, sub) == Find(text, sub, 0) # -1

SpliceError == [status |-> "RuntimeError", value |-> <<>>]

\* The slip of looking for the end marker from the start of the text and
\* not comparing the two positions.
_replace_between_markers_unordered(body_html, start_marker, end_marker, replacement) ==
    IF ~Contains(body_html, start_marker) \/ ~Contains(body_html, end_marker)
    THEN SpliceError
    ELSE LET start_idx == Find(body_html, start_marker, 0)
             end_idx == Find(body_html, end_marker, 0)
         IN  [status |-> "ok",
              value |-> Slice(body_html, 0, start_idx + Len(start_marker))
                        \o <<NL>> \o replacement \o <<NL>>
                        \o Slice(body_html, end_idx, Len(body_html))]

\* The slip of inserting the replacement in front of the end marker and
\* keeping the old content.
_replace_between_markers_insert(body_html, start_marker, end_marker, replacement) ==
    IF ~Contains(body_html, start_marker) \/ ~Contains(body_html, end_marker)
    THEN SpliceError
    ELSE LET start_idx == Find(body_html, start_marker, 0)
             end_idx == Find(body_html, end_marker, start_idx)
         IN  IF start_idx = -1 \/ end_idx = -1 \/ start_idx >= end_idx
             THEN SpliceError
             ELSE [status |-> "ok",
                   value |-> Slice(body_html, 0, end_idx)
                             \o <<NL>> \o replacement \o <<NL>>
                             \o Slice(body_html, end_idx, Len(body_html))]

\* The slip of cutting the text behind the end marker instead of at it.
_replace_between_markers_drop_end(body_html, start_marker, end_marker, replacement) ==
    IF ~Contains(body_html, start_marker) \/ ~Contains(body_html, end_marker)
    THEN SpliceError
    ELSE LET start_idx == Find(body_html, start_marker, 0)
             end_idx == Find(body_html, end_marker, start_idx)
         IN  IF start_idx = -1 \/ end_idx = -1 \/ start_idx >= end_idx
             THEN SpliceError
             ELSE [status |-> "ok",
                   value |-> Slice(body_html, 0, start_idx + Len(start_marker))
                             \o <<NL>> \o replacement \o <<NL>>
                             \o Slice(body_html, end_idx + Len(end_marker),
                                      Len(body_html))]

_replace_between_markers(body_html, start_marker, end_marker, replacement) ==
    IF ~Contains(body_html, start_marker) \/ ~Contains(body_html, end_marker)
    THEN SpliceError
    ELSE LET start_idx == Find(body_html, start_marker, 0)
             end_idx == Find(body_html, end_marker, start_idx)
         IN  IF start_idx = -1 \/ end_idx = -1 \/ start_idx >= end_idx
             THEN SpliceError
             ELSE [status |-> "ok",
                   value |-> Slice(body_html, 0, start_idx + Len(start_marker))
                             \o <<NL>> \o replacement \o <<NL>>
                             \o Slice(body_html, end_idx, Len(body_html))]

(***************************************************************************)
(* Rendering of the two generated fragments (build_index.py 110-185).      *)
(* A fragment is a sequence of tokens; a list item is the token of its     *)
(* tool's slug (the link target and the date text of an item are not told  *)
(* apart).                                                                 *)
(***************************************************************************)
Slugs(entries) == [i \in 1..Len(entries) |-> entries[i].slug]

render_list(tools) ==
    IF tools = <<>> THEN <<"<li class=recent-empty>">> ELSE Slugs(tools)

_render_recent_section(recently_added, recently_updated) ==
    <<"<section recent-highlights>", "<h2>Recently added</h2>">>
    \o render_list(recently_added)
    \o <<"<h2>Recently updated</h2>">>
    \o render_list(recently_updated)
    \o <<"</section>">>

\* Case-folded order of the slugs the model uses (a tool has no title here,
\* so `title or slug` is its slug).
SlugRank(slug) ==
    CASE slug = "a" -> 1
      [] slug = "index" -> 2
      [] slug = "t1" -> 3
      [] slug = "t2" -> 4
      [] slug = "t3" -> 5
      [] slug = "t4" -> 6
      [] slug = "t5" -> 7
      [] slug = "t6" -> 8
      [] OTHER -> 9

\* sorted(..., key=...) is stable: an item goes behind every item whose key
\* is less than or equal to its own.
RECURSIVE InsertBySlug(_, _)
InsertBySlug(sorted, tool) ==
    IF sorted = <<>> THEN <<tool>>
    ELSE IF SlugRank(Head(sorted).slug) <= SlugRank(tool.slug)
         THEN <<Head(sorted)>> \o InsertBySlug(Tail(sorted), tool)
         ELSE <<tool>> \o sorted

RECURSIVE SortBySlug(_, _)
SortBySlug(tools, sorted) ==
    IF tools = <<>> THEN sorted
    ELSE SortBySlug(Tail(tools), InsertBySlug(sorted, Head(tools)))

_render_tools_index(tools) ==
    LET NotIndex(tool) == tool.slug # "index"
        sorted_tools == SortBySlug(SelectSeq(tools, NotIndex), <<>>)
    IN  <<"<section tools-directory>">>
        \o (IF sorted_tools # <<>> THEN Slugs(sorted_tools)
            ELSE <<"<li class=tools-directory-empty>">>)
        \o <<"</section>">>

(***************************************************************************)
(* build_index (build_index.py 56-60, 188-242).                            *)
(* files.readme_body is the HTML the Markdown converter makes of README.md *)
(* (the converter passes HTML comments, hence the markers, through).       *)
(* files.tools_json is "missing", "invalid" (json.load raises) or "ok".    *)
(***************************************************************************)
RecentlyStarts == "<!-- recently starts -->"
RecentlyStops == "<!-- recently stops -->"
ToolsIndexStarts == "<!-- tools index starts -->"
ToolsIndexStops == "<!-- tools index stops -->"

_load_tools(f) ==
    IF f.tools_json = "missing" THEN [status |-> "ok", value |-> <<>>]
    ELSE IF f.tools_json = "invalid"
         THEN [status |-> "JSONDecodeError", value |-> <<>>]
         ELSE [status |-> "ok", value |-> f.tools]

\* An aborted run: an exception left build_index before write_text.
IndexAbort(error, added, updated) ==
    [status |-> error, recently_added |-> added, recently_updated |-> updated,
     wrote |-> FALSE, output |-> <<>>]

IndexPage(body_html) ==
    <<"<html>", "<article>">> \o body_html \o <<"</article>", "</html>">>

\* The slip of writing the page although a splice failed.
SpliceAndWrite_best_effort(body_html, tools, added, updated) ==
    LET first == _replace_between_markers(
                     body_html, <<RecentlyStarts>>, <<RecentlyStops>>,
                     _render_recent_section(added, updated))
        second == _replace_between_markers(
                      first.value, <<ToolsIndexStarts>>, <<ToolsIndexStops>>,
                      _render_tools_index(tools))
    IN  [status |-> IF first.status # "ok" THEN first.status ELSE second.status,
         recently_added |-> added, recently_updated |-> updated,
         wrote |-> TRUE,
         output |-> IndexPage(IF second.status = "ok" THEN second.value
                              ELSE body_html)]

\* lines 204-241, once both selections are made
SpliceAndWrite(body_html, tools, added, updated) ==
    LET first == _replace_between_markers(
                     body_html, <<RecentlyStarts>>, <<RecentlyStops>>,
                     _render_recent_section(added, updated))
    IN  IF first.status # "ok" THEN IndexAbort(first.status, added, updated)
        ELSE LET second == _replace_between_markers(
                               first.value, <<ToolsIndexStarts>>,
                               <<ToolsIndexStops>>, _render_tools_index(tools))
             IN  IF second.status # "ok"
                 THEN IndexAbort(second.status, added, updated)
                 ELSE [status |-> "ok", recently_added |-> added,
                       recently_updated |-> updated, wrote |-> TRUE,
                       output |-> IndexPage(second.value)]

\* lines 196-202
SelectAndWrite(body_html, tools) ==
    LET added == _select_recent(tools, "created", RecentLimit, {})
        Raises(tool) == _has_distinct_update(tool).status # "ok"
        Distinct(tool) == _has_distinct_update(tool).value
    IN  IF added.status # "ok" THEN IndexAbort(added.status, <<>>, <<>>)
        ELSE IF \E i \in 1..Len(tools) : Raises(tools[i])
             THEN IndexAbort("TypeError", added.value, <<>>)
             ELSE LET added_slugs == Range(Slugs(added.value))
                      tools_with_updates == SelectSeq(tools, Distinct)
                      updated == _select_recent(tools_with_updates, "updated",
                                                RecentLimit, added_slugs)
                  IN  IF updated.status # "ok"
                      THEN IndexAbort(updated.status, added.value, <<>>)
                      ELSE SpliceAndWrite(body_html, tools, added.value,
                                          updated.value)

build_index(f) ==
    IF ~f.readme_exists THEN IndexAbort("FileNotFoundError", <<>>, <<>>)
    ELSE LET tools == _load_tools(f)
         IN  IF tools.status # "ok" THEN IndexAbort(tools.status, <<>>, <<>>)
             ELSE SelectAndWrite(f.readme_body, tools.value)

(***************************************************************************)
(* build_colophon (build_colophon.py 34-172).                              *)
(* files.pages is the "pages" object in document order: a sequence of      *)
(* [page_name, commits].  A commit holds its date: kind "absent" is a      *)
(* commit without a "date" key, kind "iso" a timestamp with a UTC offset.  *)
(* Dates are compared as strings: "0000-00-00T00:00:00" is less than every *)
(* timestamp; two timestamps compare by their local time text and then by  *)
(* their offset text ("+00:00" < "+01:00" < "+02:00").                     *)
(***************************************************************************)
Sentinel == [kind |-> "sentinel", local |-> 0, aware |-> FALSE, off |-> 0]

\* commit.get("date", "0000-00-00T00:00:00")
DateOrSentinel(commit) ==
    IF commit.date.kind = "absent" THEN Sentinel ELSE commit.date

\* a >= b as strings
StrGreaterOrEqual(a, b) ==
    IF a.kind # b.kind THEN b.kind = "sentinel"
    ELSE IF a.kind = "sentinel" THEN TRUE
    ELSE IF a.local # b.local THEN a.local > b.local
    ELSE IF a.aware # b.aware THEN a.aware
    ELSE a.off >= b.off

\* max(dates) of a non-empty list: the first of the greatest
RECURSIVE StrMax(_, _)
StrMax(dates, best) ==
    IF dates = <<>> THEN best
    ELSE StrMax(Tail(dates),
                IF StrGreaterOrEqual(best, Head(dates)) THEN best
                ELSE Head(dates))

get_most_recent_date(page_data) ==
    LET commits == page_data.commits
        dates == [i \in 1..Len(commits) |-> DateOrSentinel(commits[i])]
    IN  IF commits = <<>> THEN Sentinel ELSE StrMax(Tail(dates), Head(dates))

\* sorted(pages.items(), key=..., reverse=True), stable
RECURSIVE InsertPage(_, _)
InsertPage(sorted, page) ==
    IF sorted = <<>> THEN <<page>>
    ELSE IF StrGreaterOrEqual(get_most_recent_date(Head(sorted)),
                              get_most_recent_date(page))
         THEN <<Head(sorted)>> \o InsertPage(Tail(sorted), page)
         ELSE <<page>> \o sorted

RECURSIVE SortPages(_, _)
SortPages(pages, sorted) ==
    IF pages = <<>> THEN sorted
    ELSE SortPages(Tail(pages), InsertPage(sorted, Head(pages)))

Reversed(s) == [i \in 1..Len(s) |-> s[Len(s) + 1 - i]]

\* lines 78-146: one article per page, its commits oldest first
RenderPages(sorted_pages) ==
    [i \in 1..Len(sorted_pages) |->
        [page_name |-> sorted_pages[i].page_name,
         commits |-> Reversed(sorted_pages[i].commits)]]

ColophonStop(reason) == [status |-> reason, wrote |-> FALSE, output |-> <<>>]

build_colophon(f) ==
    IF f.gathered = "missing" THEN ColophonStop("input not found")
    ELSE IF f.gathered = "invalid" THEN ColophonStop("JSONDecodeError")
    ELSE IF f.pages = <<>> THEN ColophonStop("no pages")
    ELSE [status |-> "ok", wrote |-> TRUE,
          output |-> RenderPages(SortPages(f.pages, <<>>))]

(***************************************************************************)
(* Input domains.                                                          *)
(***************************************************************************)
\* Timestamps of a tool: naive 01:00 and 02:00, 02:00+01:00 (the instant
\* 01:00 UTC) and 02:00Z.
Stamps == {Absent, Malformed, IsoNaive(1), IsoNaive(2), IsoAware(2, 1),
           IsoAware(2, 0)}

Tools == [slug : {"a", "index"}, created : Stamps, updated : Stamps]

\* every list of at most MaxTools tools
ShortToolLists == SeqsUpTo(Tools, MaxTools)

\* Lists of RecentLimit + 1 tools t1, t2, ..., so that the limit cuts: each
\* created at 01:00 or 02:00 and either never updated or updated at 02:00.
LongSlug(i) ==
    CASE i = 1 -> "t1" [] i = 2 -> "t2" [] i = 3 -> "t3"
      [] i = 4 -> "t4" [] i = 5 -> "t5" [] OTHER -> "t6"

LongStamps == [created : {IsoNaive(1), IsoNaive(2)},
               updated : {Absent, IsoNaive(2)}]

LongToolLists ==
    {[i \in 1..(RecentLimit + 1) |->
         [slug |-> LongSlug(i), created |-> st[i].created,
          updated |-> st[i].updated]] :
     st \in [1..(RecentLimit + 1) -> LongStamps]}

ToolLists == ShortToolLists \cup LongToolLists

Limits == {0, 2, RecentLimit}
Exclusions == {{}, {"a", "t2"}}

Chars == {"a", "b"}

ReadmeTokens == {"<p>", RecentlyStarts, RecentlyStops, ToolsIndexStarts,
                 ToolsIndexStops}

GoodReadme == <<"<p>", RecentlyStarts, "<p>", RecentlyStops,
                ToolsIndexStarts, ToolsIndexStops>>

\* index.html / colophon.html before the pass: absent, or an older build
OldIndexHtml == <<"old index.html">>
OldColophonHtml == <<[page_name |-> "old colophon.html", commits |-> <<>>]>>

\* Commit dates: none, or 01:00 / 02:00 local time at +00:00 / +02:00.
CommitDates == {Absent, IsoAware(1, 0), IsoAware(2, 0), IsoAware(1, 2),
                IsoAware(2, 2)}

PageName(i) == CASE i = 1 -> "p1.html" [] i = 2 -> "p2.html"
                 [] i = 3 -> "p3.html" [] OTHER -> "p4.html"

\* the documents of at most n pages, each of at most m commits
PageLists(n, m) ==
    UNION {{[i \in 1..k |-> [page_name |-> PageName(i), commits |-> cs[i]]] :
            cs \in [1..k -> SeqsUpTo([date : CommitDates], m)]} :
           k \in 0..n}

(***************************************************************************)
(* States in which a component is not in use, and initial states.          *)
(***************************************************************************)
NoDt == [day |-> 0, month |-> 0, year |-> 0]
NoCall == [tools |-> <<>>, key |-> "created", limit |-> 0, exclude_slugs |-> {}]
NoSplice == [body_html |-> <<>>, start_marker |-> <<>>, end_marker |-> <<>>,
             replacement |-> <<>>]
NoFiles == [readme_exists |-> FALSE, readme_body |-> <<>>,
            tools_json |-> "missing", tools |-> <<>>, index_html |-> <<>>,
            gathered |-> "missing", pages |-> <<>>, colophon_html |-> <<>>]
Result(st) == [status |-> st, value |-> <<>>]
IndexRun(st) == IndexAbort(st, <<>>, <<>>)
ColophonRun(st) == ColophonStop(st)

FormatIdle == dt = NoDt /\ display = [status |-> "idle", value |-> NoDisplay]
SelectIdle == select_call = NoCall /\ selected = Result("idle")
SpliceIdle == /\ splice_call = NoSplice
              /\ spliced = Result("idle")
              /\ respliced = Result("idle")
IndexIdle == index_run = IndexRun("idle")
ColophonIdle == colophon_run = ColophonRun("idle")

InitFormat ==
    /\ dt \in [day : 1..MaxDay, month : Months, year : Years]
    /\ display = [status |-> "pending", value |-> NoDisplay]
    /\ SelectIdle /\ SpliceIdle /\ IndexIdle /\ ColophonIdle
    /\ files = NoFiles

InitSelect ==
    /\ select_call \in [tools : ToolLists, key : {"created", "updated"},
                        limit : Limits, exclude_slugs : Exclusions]
    /\ selected = Result("pending")
    /\ FormatIdle /\ SpliceIdle /\ IndexIdle /\ ColophonIdle
    /\ files = NoFiles

InitSpliceCall ==
    /\ splice_call \in [body_html : SeqsUpTo(Chars, MaxBody),
                        start_marker : SeqsFromTo(Chars, 1, MaxMarker),
                        end_marker : SeqsFromTo(Chars, 1, MaxMarker),
                        replacement : SeqsUpTo(Chars, MaxReplacement)]
    /\ spliced = Result("pending")
    /\ respliced = Result("pending")
    /\ FormatIdle /\ SelectIdle /\ IndexIdle /\ ColophonIdle
    /\ files = NoFiles

\* build_index over every converted README of at most MaxReadme tokens
InitReadme ==
    /\ \E body \in SeqsUpTo(ReadmeTokens, MaxReadme),
          tools \in {<<>>, <<[slug |-> "a", created |-> IsoNaive(1),
                              updated |-> IsoNaive(2)]>>} :
          files = [NoFiles EXCEPT !.readme_exists = TRUE,
                                  !.readme_body = body,
                                  !.tools_json = "ok", !.tools = tools,
                                  !.index_html = OldIndexHtml]
    /\ index_run = IndexRun("pending")
    /\ FormatIdle /\ SelectIdle /\ SpliceIdle /\ ColophonIdle

\* build_index over every tool list, with a README that holds the markers
InitTools ==
    /\ \E tools \in ToolLists :
          files = [NoFiles EXCEPT !.readme_exists = TRUE,
                                  !.readme_body = GoodReadme,
                                  !.tools_json = "ok", !.tools = tools]
    /\ index_run = IndexRun("pending")
    /\ FormatIdle /\ SelectIdle /\ SpliceIdle /\ ColophonIdle

\* build_index over present, missing and unreadable input files
InitIndexFiles ==
    /\ \E readme \in BOOLEAN,
          body \in {GoodReadme, <<"<p>", RecentlyStarts, RecentlyStops>>,
                    <<RecentlyStops, RecentlyStarts, ToolsIndexStarts,
                      ToolsIndexStops>>},
          json \in {"missing", "invalid", "ok"},
          tools \in SeqsUpTo({[slug |-> "a", created |-> IsoNaive(1),
                               updated |-> IsoNaive(2)],
                              [slug |-> "index", created |-> IsoAware(2, 0),
                               updated |-> Malformed]}, 2),
          old \in {<<>>, OldIndexHtml} :
          files = [NoFiles EXCEPT
                      !.readme_exists = readme,
                      !.readme_body = IF readme THEN body ELSE <<>>,
                      !.tools_json = json,
                      !.tools = IF json = "ok" THEN tools ELSE <<>>,
                      !.index_html = old]
    /\ index_run = IndexRun("pending")
    /\ FormatIdle /\ SelectIdle /\ SpliceIdle /\ ColophonIdle

\* build_colophon over present, missing and unreadable gathered_links.json
InitColophonFiles ==
    /\ \E json \in {"missing", "invalid", "ok"},
          pages \in PageLists(2, 1),
          old \in {<<>>, OldColophonHtml} :
          files = [NoFiles EXCEPT
                      !.gathered = json,
                      !.pages = IF json = "ok" THEN pages ELSE <<>>,
                      !.colophon_html = old]
    /\ colophon_run = ColophonRun("pending")
    /\ FormatIdle /\ SelectIdle /\ SpliceIdle /\ IndexIdle

\* build_colophon over every commit-history document
InitColophon ==
    /\ \E pages \in PageLists(MaxPages, MaxCommits) :
          files = [NoFiles EXCEPT !.gathered = "ok", !.pages = pages]
    /\ colophon_run = ColophonRun("pending")
    /\ FormatIdle /\ SelectIdle /\ SpliceIdle /\ IndexIdle

(***************************************************************************)
(* Actions: one per function called.                                       *)
(***************************************************************************)
FormatDisplayDate ==
    /\ display.status = "pending"
    /\ display' = [status |-> "ok", value |-> _format_display_date(dt)]
    /\ UNCHANGED <<dt, select_call, selected, splice_call, spliced, respliced,
                   files, index_run, colophon_run>>

SelectRecent ==
    /\ selected.status = "pending"
    /\ selected' = _select_recent(select_call.tools, select_call.key,
                                  select_call.limit, select_call.exclude_slugs)
    /\ UNCHANGED <<dt, display, select_call, splice_call, spliced, respliced,
                   files, index_run, colophon_run>>

ReplaceBetweenMarkers ==
    /\ spliced.status = "pending"
    /\ spliced' = _replace_between_markers(
                      splice_call.body_html, splice_call.start_marker,
                      splice_call.end_marker, splice_call.replacement)
    /\ UNCHANGED <<dt, display, select_call, selected, splice_call, respliced,
                   files, index_run, colophon_run>>

\* the same call on the result of a call that succeeded
ReplaceAgain ==
    /\ spliced.status = "ok"
    /\ respliced.status = "pending"
    /\ respliced' = _replace_between_markers(
                        spliced.value, splice_call.start_marker,
                        splice_call.end_marker, splice_call.replacement)
    /\ UNCHANGED <<dt, display, select_call, selected, splice_call, spliced,
                   files, index_run, colophon_run>>

BuildIndex ==
    /\ index_run.status = "pending"
    /\ index_run' = build_index(files)
    /\ files' = IF index_run'.wrote
                THEN [files EXCEPT !.index_html = index_run'.output]
                ELSE files
    /\ UNCHANGED <<dt, display, select_call, selected, splice_call, spliced,
                   respliced, colophon_run>>

BuildColophon ==
    /\ colophon_run.status = "pending"
    /\ colophon_run' = build_colophon(files)
    /\ files' = IF colophon_run'.wrote
                THEN [files EXCEPT !.colophon_html = colophon_run'.output]
                ELSE files
    /\ UNCHANGED <<dt, display, select_call, selected, splice_call, spliced,
                   respliced, index_run>>

(***************************************************************************)
(* Specifications.                                                         *)
(***************************************************************************)
Init == InitFormat \/ InitSelect \/ InitSpliceCall \/ InitReadme \/ InitTools
        \/ InitIndexFiles \/ InitColophonFiles \/ InitColophon

Next == FormatDisplayDate \/ SelectRecent \/ ReplaceBetweenMarkers
        \/ ReplaceAgain \/ BuildIndex \/ BuildColophon

Spec == Init /\ [][Next]_vars

\* the date formatter alone
SpecFormat == InitFormat /\ [][FormatDisplayDate]_vars

\* the recency selector alone
SpecSelect == InitSelect /\ [][SelectRecent]_vars

\* the splicer, alone and inside build_index
NextSplice == ReplaceBetweenMarkers \/ ReplaceAgain \/ BuildIndex

SpecSplice == (InitSpliceCall \/ InitReadme) /\ [][NextSplice]_vars

\* build_index over the tool lists
SpecIndex == InitTools /\ [][BuildIndex]_vars

\* both passes over their input files
NextPasses == BuildIndex \/ BuildColophon

SpecPasses == (InitIndexFiles \/ InitColophonFiles) /\ [][NextPasses]_vars

\* build_colophon over the commit-history documents
SpecColophon == InitColophon /\ [][BuildColophon]_vars

(***************************************************************************)
(* Vocabulary of the properties, stated without the functions under test.  *)
(***************************************************************************)
Parses(value) == value.kind = "iso"

\* the wall-clock or UTC time a parseable timestamp denotes
TimeOf(value) == IF value.aware THEN value.local - value.off ELSE value.local

Min(a, b) == IF a <= b THEN a ELSE b

SelectDone == selected.status \notin {"idle", "pending"}
SpliceDone == spliced.status \notin {"idle", "pending"}
IndexDone == index_run.status \notin {"idle", "pending"}
ColophonDone == colophon_run.status \notin {"idle", "pending"}

\* the positions at which `sub` occurs in `text` (0-based)
Occurrences(text, sub) ==
    {i \in 0..(Len(text) - Len(sub)) : Slice(text, i, i + Len(sub)) = sub}

Least(S) == CHOOSE i \in S : \A j \in S : i <= j

\* A marker is absent, or no end marker begins behind the place where the
\* first start marker begins.
MarkersAbsentOrOutOfOrder(text, start_marker, end_marker) ==
    \/ Occurrences(text, start_marker) = {}
    \/ Occurrences(text, end_marker) = {}
    \/ \A e \in Occurrences(text, end_marker) :
           e <= Least(Occurrences(text, start_marker))

\* the first end marker behind the place where the first start marker begins
EndAfterStart(text, start_marker, end_marker) ==
    Least({e \in Occurrences(text, end_marker) :
               e > Least(Occurrences(text, start_marker))})

(***************************************************************************)
(* C1.  For every list of tools, key, exclusion set and limit >= 0,        *)
(* _select_recent returns at most `limit` entries, their parsed dates in   *)
(* non-increasing order.  Stated for the calls that return.                *)
(***************************************************************************)
C1_AtMostLimitAndDescending ==
    selected.status = "ok" =>
        /\ Len(selected.value) <= select_call.limit
        /\ \A i, j \in 1..Len(selected.value) :
              i < j => TimeOf(selected.value[i].parsed_date)
                       >= TimeOf(selected.value[j].parsed_date)

(***************************************************************************)
(* C9.  With limit 5 the result of _select_recent is the reference         *)
(* selection: the tools whose timestamp parses and whose slug is not       *)
(* excluded, latest first, ties in input order, cut to the first five.     *)
(***************************************************************************)
ReferenceSelection(tools, key, limit, excluded) ==
    LET kept == {i \in 1..Len(tools) :
                    Parses(Field(tools[i], key)) /\ tools[i].slug \notin excluded}
        Before(i, j) ==
            \/ TimeOf(Field(tools[i], key)) > TimeOf(Field(tools[j], key))
            \/ TimeOf(Field(tools[i], key)) = TimeOf(Field(tools[j], key)) /\ i < j
        Place(i) == 1 + Cardinality({j \in kept : Before(j, i)})
        At(r) == CHOOSE i \in kept : Place(i) = r
    IN  [r \in 1..Min(limit, Cardinality(kept)) |->
            [slug |-> tools[At(r)].slug, created |-> tools[At(r)].created,
             updated |-> tools[At(r)].updated,
             parsed_date |-> [ok |-> TRUE,
                              local |-> Field(tools[At(r)], key).local,
                              aware |-> Field(tools[At(r)], key).aware,
                              off |-> Field(tools[At(r)], key).off]]]

\* C9: a call with limit 5 returns, and returns the reference selection.
C9_EqualsReferenceSelection ==
    (SelectDone /\ select_call.limit = RecentLimit) =>
        /\ selected.status = "ok"
        /\ selected.value = ReferenceSelection(select_call.tools, select_call.key,
                                               RecentLimit,
                                               select_call.exclude_slugs)

\* What remains true of C9: a call that returns, returns the reference
\* selection.
SelectionIsReferenceWhenReturned ==
    (selected.status = "ok" /\ select_call.limit >= 1) =>
        selected.value = ReferenceSelection(select_call.tools, select_call.key,
                                            select_call.limit,
                                            select_call.exclude_slugs)

(***************************************************************************)
(* C2.  In build_index no slug of the "recently added" selection is the    *)
(* slug of an entry of the "recently updated" selection.                   *)
(***************************************************************************)
C2_SelectionsSlugDisjoint ==
    IndexDone =>
        \A i \in 1..Len(index_run.recently_added),
           j \in 1..Len(index_run.recently_updated) :
            index_run.recently_added[i].slug # index_run.recently_updated[j].slug

\* A tool that was added recently and has a distinct update is kept out of
\* the updated selection, which holds another tool.
C2_Witness ==
    /\ index_run.status = "ok"
    /\ index_run.recently_updated # <<>>
    /\ \E i \in 1..Len(files.tools) :
          /\ Parses(files.tools[i].created)
          /\ Parses(files.tools[i].updated)
          /\ TimeOf(files.tools[i].updated) > TimeOf(files.tools[i].created)
          /\ \E k \in 1..Len(index_run.recently_added) :
                index_run.recently_added[k].slug = files.tools[i].slug

(***************************************************************************)
(* C3.  _has_distinct_update returns True only if `updated` parses and     *)
(* `created` does not parse or `updated` is strictly later; so a tool      *)
(* whose `updated` is not later than its `created` is in no "recently      *)
(* updated" selection.                                                     *)
(***************************************************************************)
NotLaterThanCreated(tool) ==
    /\ Parses(tool.created)
    /\ Parses(tool.updated)
    /\ TimeOf(tool.updated) <= TimeOf(tool.created)

\* C3: True only for a parseable `updated` that is strictly later than a
\* parseable `created`; no entry of the updated selection is otherwise.
C3_DistinctOnlyIfStrictlyLater ==
    /\ \A i \in 1..Len(files.tools) :
          _has_distinct_update(files.tools[i]) = [status |-> "ok", value |-> TRUE]
          => /\ Parses(files.tools[i].updated)
             /\ \/ ~Parses(files.tools[i].created)
                \/ /\ files.tools[i].updated.aware = files.tools[i].created.aware
                   /\ TimeOf(files.tools[i].updated) > TimeOf(files.tools[i].created)
    /\ \A j \in 1..Len(index_run.recently_updated) :
          ~NotLaterThanCreated(index_run.recently_updated[j])

\* The build went through with a tool updated at the time of its creation,
\* and something was selected as updated.
C3_Witness ==
    /\ index_run.status = "ok"
    /\ index_run.recently_updated # <<>>
    /\ \E i \in 1..Len(files.tools) :
          /\ NotLaterThanCreated(files.tools[i])
          /\ TimeOf(files.tools[i].updated) = TimeOf(files.tools[i].created)

(***************************************************************************)
(* C4.  _replace_between_markers fails whenever a marker is absent or the  *)
(* end marker does not occur after the start marker, and in build_index    *)
(* that failure leaves index.html as it was.                               *)
(***************************************************************************)
\* A marker is absent, or no end marker begins at or behind the place where
\* the first start marker ends.
MarkersAbsentOrEndNotAfterStart(text, start_marker, end_marker) ==
    \/ Occurrences(text, start_marker) = {}
    \/ Occurrences(text, end_marker) = {}
    \/ \A e \in Occurrences(text, end_marker) :
           e < Least(Occurrences(text, start_marker)) + Len(start_marker)

ReadmeMarkersBad(body) ==
    \/ MarkersAbsentOrOutOfOrder(body, <<RecentlyStarts>>, <<RecentlyStops>>)
    \/ MarkersAbsentOrOutOfOrder(body, <<ToolsIndexStarts>>, <<ToolsIndexStops>>)

ReadmeMarkersAbsentOrEndNotAfterStart(body) ==
    \/ MarkersAbsentOrEndNotAfterStart(body, <<RecentlyStarts>>,
                                       <<RecentlyStops>>)
    \/ MarkersAbsentOrEndNotAfterStart(body, <<ToolsIndexStarts>>,
                                       <<ToolsIndexStops>>)

C5_Idempotent ==
    (spliced.status = "ok" /\ respliced.status # "pending"
     /\ splice_call.start_marker # splice_call.end_marker)
    => respliced = spliced

\* The end marker occurs in start_marker + "\n" + replacement + "\n" +
\* end_marker at the end only.
EndMarkerOnlyAtEnd ==
    LET window == splice_call.start_marker \o <<NL>> \o splice_call.replacement
                  \o <<NL>> \o splice_call.end_marker
    IN  Occurrences(window, splice_call.end_marker)
        = {Len(window) - Len(splice_call.end_marker)}

\* C5 as amended: the second call returns what the first returned when the
\* end marker is not reintroduced in front of its place.
C5_IdempotentWhenEndMarkerNotReintroduced ==
    (spliced.status = "ok" /\ respliced.status # "pending"
     /\ splice_call.start_marker # splice_call.end_marker
     /\ EndMarkerOnlyAtEnd)
    => respliced = spliced

\* Old content was replaced, and the second call returned the same text.
C5_Witness ==
    /\ spliced.status = "ok"
    /\ respliced.status = "ok"
    /\ splice_call.start_marker # splice_call.end_marker
    /\ EndMarkerOnlyAtEnd
    /\ splice_call.replacement # <<>>
    /\ Len(spliced.value) < Len(splice_call.body_html) + 2
                            + Len(splice_call.replacement)

(***************************************************************************)
(* C10.  A successful splice is the input up to and including the first    *)
(* start marker, then the replacement, then the input from the first end   *)
(* marker after the start marker onward.                                   *)
(***************************************************************************)
HeadOfSplice ==
    Slice(splice_call.body_html, 0,
          Least(Occurrences(splice_call.body_html, splice_call.start_marker))
          + Len(splice_call.start_marker))

TailOfSplice ==
    Slice(splice_call.body_html,
          EndAfterStart(splice_call.body_html, splice_call.start_marker,
                        splice_call.end_marker),
          Len(splice_call.body_html))

\* C10: the result is head, replacement, tail.
C10_ReplacementBetweenMarkers ==
    spliced.status = "ok" =>
        spliced.value = HeadOfSplice \o splice_call.replacement \o TailOfSplice

\* C10 as amended: the result is head, newline, replacement, newline, tail;
\* the head ends with the start marker and the tail begins with the end
\* marker.
C10_ReplacementOnLinesOfItsOwn ==
    spliced.status = "ok" =>
        LET out == spliced.value
            h == Len(HeadOfSplice)
            r == Len(splice_call.replacement)
        IN  /\ Len(out) = h + r + 2 + Len(TailOfSplice)
            /\ Slice(out, 0, h) = HeadOfSplice
            /\ Slice(out, h - Len(splice_call.start_marker), h)
               = splice_call.start_marker
            /\ out[h + 1] = NL
            /\ Slice(out, h + 1, h + 1 + r) = splice_call.replacement
            /\ out[h + r + 2] = NL
            /\ Slice(out, h + r + 2, h + r + 2 + Len(splice_call.end_marker))
               = splice_call.end_marker
            /\ Slice(out, h + r + 2, Len(out)) = TailOfSplice

\* Text before, between and behind the markers; the text between is gone.
C10_Witness ==
    /\ spliced.status = "ok"
    /\ Least(Occurrences(splice_call.body_html, splice_call.start_marker)) > 0
    /\ Len(TailOfSplice) > Len(splice_call.end_marker)
    /\ Len(HeadOfSplice) + Len(TailOfSplice) < Len(splice_call.body_html)
    /\ splice_call.replacement # <<>>

(***************************************************************************)
(* C6.  A pass whose required input file is missing (README.md or          *)
(* tools.json; gathered_links.json) stops and does not write its output;   *)
(* the output is written only by a pass of which every step succeeded.     *)
(***************************************************************************)
\* C6: without README.md or tools.json the index pass writes nothing, and
\* without gathered_links.json the colophon pass writes nothing.
C6_MissingInputStopsPass ==
    /\ (IndexDone /\ (~files.readme_exists \/ files.tools_json = "missing"))
       => (index_run.status # "ok" /\ ~index_run.wrote)
    /\ (ColophonDone /\ files.gathered = "missing")
       => (colophon_run.status # "ok" /\ ~colophon_run.wrote)

\* a step that runs a pass
IndexStep == index_run.status = "pending" /\ index_run'.status # "pending"
ColophonStep == colophon_run.status = "pending" /\ colophon_run'.status # "pending"

\* C6 as amended: every step of a pass leaves the files alone unless the
\* pass succeeded, and then it writes its output file only; a missing
\* tools.json counts as an empty tool list.
C6_MissingReadmeOrHistoryStopsPass ==
    [][ /\ IndexStep =>
             /\ ~files.readme_exists
                => (index_run'.status = "FileNotFoundError" /\ files' = files)
             /\ (files.readme_exists /\ files.tools_json = "missing")
                => index_run' = build_index([files EXCEPT !.tools_json = "ok",
                                                          !.tools = <<>>])
             /\ index_run'.status # "ok" => files' = files
             /\ files' # files
                => /\ index_run'.status = "ok"
                   /\ files.readme_exists
                   /\ files.tools_json # "invalid"
                   /\ ~ReadmeMarkersBad(files.readme_body)
                   /\ files' = [files EXCEPT !.index_html = index_run'.output]
        /\ ColophonStep =>
             /\ files.gathered = "missing"
                => (colophon_run'.status = "input not found" /\ files' = files)
             /\ colophon_run'.status # "ok" => files' = files
             /\ files' # files
                => /\ colophon_run'.status = "ok"
                   /\ files.gathered = "ok"
                   /\ files.pages # <<>>
                   /\ files' = [files EXCEPT
                                   !.colophon_html = colophon_run'.output]
      ]_vars

\* The index pass stopped for want of README.md and the older index.html
\* is still there.
C6_Witness ==
    /\ index_run.status = "FileNotFoundError"
    /\ ~files.readme_exists
    /\ files.index_html = OldIndexHtml

(***************************************************************************)
(* C7.  The colophon lists the pages latest commit first: a page whose     *)
(* latest commit is strictly later than another's comes before it, and a   *)
(* page without commits comes behind every page that has one.  Stated for  *)
(* the pages all of whose commits carry a date.                            *)
(***************************************************************************)
AllDated(page) == \A i \in 1..Len(page.commits) : Parses(page.commits[i].date)

\* the time of the latest commit of a page that has one
LatestCommit(page) ==
    LET times == {TimeOf(page.commits[i].date) : i \in 1..Len(page.commits)}
    IN  CHOOSE t \in times : \A u \in times : u <= t

\* where in the output a page of the document stands
Rendered(page) ==
    CHOOSE k \in 1..Len(colophon_run.output) :
        colophon_run.output[k].page_name = page.page_name

\* C7: in the output, later latest commit first, pages without commits last.
C7_LatestCommitFirst ==
    colophon_run.status = "ok" =>
        \A a, b \in 1..Len(files.pages) :
            LET A == files.pages[a]
                B == files.pages[b]
            IN  (AllDated(A) /\ AllDated(B) /\ A.commits # <<>>) =>
                   /\ (B.commits # <<>> /\ LatestCommit(A) > LatestCommit(B))
                      => Rendered(A) < Rendered(B)
                   /\ B.commits = <<>> => Rendered(A) < Rendered(B)

(***************************************************************************)
(* C8.  For a day 1..31, _ordinal gives the number followed by "th" for    *)
(* 11..20, and otherwise by "st", "nd", "rd" for a last digit of 1, 2, 3   *)
(* and by "th" for any other last digit.                                   *)
(***************************************************************************)
ExpectedSuffix(day) ==
    IF day \in 11..20 THEN "th"
    ELSE IF day \in {1, 21, 31} THEN "st"
    ELSE IF day \in {2, 22} THEN "nd"
    ELSE IF day \in {3, 23} THEN "rd"
    ELSE "th"

\* C8: the formatted day is the day with the suffix of the rule.
C8_OrdinalSuffix ==
    (display.status = "ok" /\ dt.day \in 1..31) =>
        /\ display.value.ordinal = <<dt.day, ExpectedSuffix(dt.day)>>
        /\ display.value.month = dt.month
        /\ display.value.year = dt.year

\* The 11th was formatted.
C8_Witness ==
    /\ display.status = "ok"
    /\ dt.day = 11
    /\ display.value.ordinal = <<11, "th">>

====
